---- MODULE Spec2Model ----
(***************************************************************************)
(* A model of the read-human library (src/src/lib.rs): one call of one of  *)
(* its seven operations against a standard input holding a sequence of     *)
(* lines, and a line-buffered standard output.                             *)
(*                                                                         *)
(* A line is a sequence of one-character strings; an output item is the    *)
(* sequence of string pieces one print!/println! call formats.             *)
(***************************************************************************)
EXTENDS Integers, Sequences, FiniteSets, TLC

VARIABLES op, question, options, default, overflow_checks,
          input, stdin, consumed, buffered, written, pc, result, diag, io_fault

vars == <<op, question, options, default, overflow_checks,
          input, stdin, consumed, buffered, written, pc, result, diag, io_fault>>

(* ------------------------------ bounds --------------------------------- *)

\* longest input stream (lines before end-of-stream)
MaxLines == 3

\* most reads one call performs in the model (reads past the end of the stream
\* see end-of-stream)
MaxReads == 4

\* longest option list
MaxOptions == 3

(* --------------------------- text and parsing -------------------------- *)

\* char::is_whitespace, restricted to the characters of the model's lines
WhiteSpace == {" ", "\n", "\t", "\r"}

Digits == {"0", "1", "2", "3", "4", "5", "6", "7", "8", "9"}

DigitValue(c) ==
    CASE c = "0" -> 0 [] c = "1" -> 1 [] c = "2" -> 2 [] c = "3" -> 3
      [] c = "4" -> 4 [] c = "5" -> 5 [] c = "6" -> 6 [] c = "7" -> 7
      [] c = "8" -> 8 [] c = "9" -> 9

RECURSIVE TrimStart(_)
TrimStart(s) ==
    IF s = <<>> THEN <<>>
    ELSE IF Head(s) \in WhiteSpace THEN TrimStart(Tail(s))
    ELSE s

RECURSIVE TrimEnd(_)
TrimEnd(s) ==
    IF s = <<>> THEN <<>>
    ELSE IF s[Len(s)] \in WhiteSpace THEN TrimEnd(SubSeq(s, 1, Len(s) - 1))
    ELSE s

\* only the leading whitespace removed
Trim_StartOnly(s) == TrimStart(s)

\* str::trim
Trim(s) == TrimEnd(TrimStart(s))

\* The width of usize is the target's pointer width.  The model takes 16 bits,
\* the narrowest usize Rust defines, so that usize::MAX stays inside TLC's
\* integers; every number the model's lines spell is far below it.
UsizeBits == 16

UsizeMax == 2^UsizeBits - 1

\* the width of u16, the type the example parses an age into
U16Bits == 16

ParseErr == [ok |-> FALSE, val |-> 0]

RECURSIVE ParseDigits(_, _, _)
ParseDigits(s, acc, max) ==
    IF s = <<>> THEN [ok |-> TRUE, val |-> acc]
    ELSE IF Head(s) \notin Digits THEN ParseErr
    ELSE LET v == acc * 10 + DigitValue(Head(s))
         IN  IF v > max THEN ParseErr ELSE ParseDigits(Tail(s), v, max)

\* <uN as FromStr>::from_str: an optional "+", then one or more digits, no
\* surrounding whitespace, the value within the type's range
ParseUnsigned(s, bits) ==
    IF s = <<>> THEN ParseErr
    ELSE IF s = <<"+">> \/ s = <<"-">> THEN ParseErr
    ELSE IF Head(s) = "+" THEN ParseDigits(Tail(s), 0, 2^bits - 1)
    ELSE ParseDigits(s, 0, 2^bits - 1)

\* ans.parse::<usize>()
ParseUsize(s) == ParseUnsigned(s, UsizeBits)

\* raw.parse::<T>() with T = u16
ParseCustom(s) == ParseUnsigned(s, U16Bits)

(* ------------------------------ results -------------------------------- *)

Pending == [tag |-> "Pending", text |-> <<>>, num |-> 0]
OkNone == [tag |-> "None", text |-> <<>>, num |-> 0]
OkSome(s) == [tag |-> "Some", text |-> s, num |-> 0]
OkString(s) == [tag |-> "String", text |-> s, num |-> 0]
OkIndex(i) == [tag |-> "Index", text |-> <<>>, num |-> i]
OkSomeValue(t) == [tag |-> "SomeValue", text |-> <<>>, num |-> t]
OkValue(t) == [tag |-> "Value", text |-> <<>>, num |-> t]
IoError == [tag |-> "IoError", text |-> <<>>, num |-> 0]
Panic(msg) == [tag |-> "Panic", text |-> <<msg>>, num |-> 0]

AssertMsg == "default index must be in the options slice"
OverflowMsg == "attempt to subtract with overflow"
PrintMsg == "failed printing to stdout"

(* ------------------------------- output -------------------------------- *)

EmptyDiag == <<"Input must not be empty.", "\n">>
NotValidDiag(raw) == raw \o <<" is not valid", "\n">>
NotValidOptionDiag(ans) == ans \o <<" is not a valid option", "\n">>
TooBigDiag(n) == <<ToString(n), " is not a valid option (too big)", "\n">>

QuestionPrompt(q) == <<q, ": ">>

RECURSIVE OptionItems(_, _)
OptionItems(opts, idx) ==
    IF idx >= Len(opts) THEN <<>>
    ELSE <<  <<", ", ToString(idx + 1), ": \"", opts[idx + 1], "\"">>  >>
         \o OptionItems(opts, idx + 1)

\* the prompt with the default shown as the 0-based index
ChoicePrompt_DefaultZeroBased(q, opts, dflt) ==
    << <<q, " [">> >>
    \o (IF Len(opts) >= 1 THEN << <<"1: \"", opts[1], "\"">> >> ELSE <<>>)
    \o OptionItems(opts, 1)
    \o (IF dflt # {}
        THEN << <<" (default: ", ToString(CHOOSE d \in dflt : TRUE), ")">> >>
        ELSE <<>>)
    \o << <<"]: ">> >>

\* one item per print! call of read_choice's prompt
ChoicePrompt(q, opts, dflt) ==
    << <<q, " [">> >>
    \o (IF Len(opts) >= 1 THEN << <<"1: \"", opts[1], "\"">> >> ELSE <<>>)
    \o OptionItems(opts, 1)
    \o (IF dflt # {}
        THEN << <<" (default: ", ToString((CHOOSE d \in dflt : TRUE) + 1), ")">> >>
        ELSE <<>>)
    \o << <<"]: ">> >>

(* ----------------------------- operations ------------------------------ *)

Ops == {"read_string", "read_string_nonempty", "read_string_noquestion",
        "read_choice", "read_custom_nonempty", "read_custom",
        "read_custom_noquestion"}

NoQuestionOps == {"read_string_noquestion", "read_custom_noquestion"}

\* every iteration, of every operation, started with the question
LoopStart_AlwaysPrint(o) == "print"

\* where an iteration of the operation's loop starts
LoopStart(o) == IF o \in NoQuestionOps THEN "flush" ELSE "print"

Prompt(o, q, opts, dflt) ==
    IF o = "read_choice" THEN ChoicePrompt(q, opts, dflt)
    ELSE << QuestionPrompt(q) >>

\* the assertion with an off-by-one bound
DefaultInRange_OffByOne(dflt, opts) == \A val \in dflt : val <= Len(opts)

\* the assertion's condition
DefaultInRange(dflt, opts) == \A val \in dflt : val < Len(opts)

\* the emptiness test made on the untrimmed buffer
ReadStringValue_Untrimmed(buf) ==
    IF buf = <<>> THEN [tag |-> "None", text |-> <<>>, num |-> 0]
    ELSE [tag |-> "Some", text |-> Trim(buf), num |-> 0]

\* what read_string and read_string_noquestion make of the line read
ReadStringValue(buf) ==
    IF Trim(buf) = <<>> THEN OkNone ELSE OkSome(Trim(buf))

Return(r) == [pc |-> "returned", result |-> r, diag |-> <<>>]
Retry(d) == [pc |-> "diag", result |-> Pending, diag |-> d]
Abort(msg) == [pc |-> "panicked", result |-> Panic(msg), diag |-> <<>>]

\* the index test with an off-by-one bound
InRange_OffByOne(ans, opts) == ans <= Len(opts)

\* the index test of read_choice
InRange(ans, opts) == ans < Len(opts)

\* a - 1 on usize: a panic when the build checks overflow, a wrap otherwise
ChoiceNumber(a, opts, checks) ==
    IF a = 0 /\ checks THEN Abort(OverflowMsg)
    ELSE LET ans == (a - 1) % (UsizeMax + 1)
         IN  IF InRange(ans, opts) THEN Return(OkIndex(ans))
             ELSE Retry(TooBigDiag(ans))

\* the default taken only when the untrimmed buffer is empty
ChoiceStep_UntrimmedDefault(buf, opts, dflt, checks) ==
    LET ans == Trim(buf)
    IN  IF dflt # {} /\ buf = <<>> THEN Return(OkIndex(CHOOSE val \in dflt : TRUE))
        ELSE LET p == ParseUsize(ans)
             IN  IF p.ok THEN ChoiceNumber(p.val, opts, checks)
                 ELSE Retry(NotValidOptionDiag(ans))

\* an empty line taken for the first option when there is no default
ChoiceStep_EmptyIsFirst(buf, opts, dflt, checks) ==
    LET ans == Trim(buf)
    IN  IF ans = <<>>
        THEN Return(OkIndex(IF dflt # {} THEN CHOOSE val \in dflt : TRUE ELSE 0))
        ELSE LET p == ParseUsize(ans)
             IN  IF p.ok THEN ChoiceNumber(p.val, opts, checks)
                 ELSE Retry(NotValidOptionDiag(ans))

\* read_choice from the line read to the end of the loop body
ChoiceStep(buf, opts, dflt, checks) ==
    LET ans == Trim(buf)
    IN  IF dflt # {} /\ ans = <<>> THEN Return(OkIndex(CHOOSE val \in dflt : TRUE))
        ELSE LET p == ParseUsize(ans)
             IN  IF p.ok THEN ChoiceNumber(p.val, opts, checks)
                 ELSE Retry(NotValidOptionDiag(ans))

\* an empty line handed back as an empty string instead of being retried
NonEmptyStep_ReturnEmpty(buf) ==
    LET v == ReadStringValue(buf)
    IN  Return(OkString(v.text))

\* read_string_nonempty's match on read_string's value
NonEmptyStep(buf) ==
    LET v == ReadStringValue(buf)
    IN  IF v.tag = "Some" THEN Return(OkString(v.text)) ELSE Retry(EmptyDiag)

\* read_custom built on the non-empty read: an empty line is retried
CustomStep_RetryOnEmpty(buf) ==
    LET v == ReadStringValue(buf)
    IN  IF v.tag = "None" THEN Retry(EmptyDiag)
        ELSE LET p == ParseCustom(v.text)
             IN  IF p.ok THEN Return(OkSomeValue(p.val))
                 ELSE Retry(NotValidDiag(v.text))

\* read_custom and read_custom_noquestion from the line read on
CustomStep(buf) ==
    LET v == ReadStringValue(buf)
    IN  IF v.tag = "None" THEN Return(OkNone)
        ELSE LET p == ParseCustom(v.text)
             IN  IF p.ok THEN Return(OkSomeValue(p.val))
                 ELSE Retry(NotValidDiag(v.text))

\* a parse failure answered with the type's default value instead of a retry
CustomNonEmptyStep_DefaultOnError(buf) ==
    LET s == NonEmptyStep(buf)
    IN  IF s.pc # "returned" THEN s
        ELSE Return(OkValue(ParseCustom(s.result.text).val))

\* read_custom_nonempty from the line read on
CustomNonEmptyStep(buf) ==
    LET s == NonEmptyStep(buf)
    IN  IF s.pc # "returned" THEN s
        ELSE LET p == ParseCustom(s.result.text)
             IN  IF p.ok THEN Return(OkValue(p.val))
                 ELSE Retry(NotValidDiag(s.result.text))

Step(o, buf, opts, dflt, checks) ==
    CASE o \in {"read_string", "read_string_noquestion"} -> Return(ReadStringValue(buf))
      [] o = "read_string_nonempty" -> NonEmptyStep(buf)
      [] o = "read_choice" -> ChoiceStep(buf, opts, dflt, checks)
      [] o = "read_custom_nonempty" -> CustomNonEmptyStep(buf)
      [] o \in {"read_custom", "read_custom_noquestion"} -> CustomStep(buf)

(* ------------------------------- inputs -------------------------------- *)

\* lines ended by a line terminator
TermLines == { <<"\n">>, <<" ", "\n">>, <<"0", "\n">>, <<"1", "\n">>,
               <<" ", "2", " ", "\n">>, <<"4", "2", "\n">>, <<"a", "\n">> }

\* a last line ended by the end of the stream
LastLines == { <<" ", "3">> }

Streams ==
    UNION { { s \in [1..n -> TermLines \cup LastLines] :
                \A i \in 1..(n - 1) : s[i] \in TermLines } : n \in 0..MaxLines }

OptionLabel(i) ==
    IF i = 1 THEN "male" ELSE IF i = 2 THEN "female"
    ELSE IF i = 3 THEN "other" ELSE ToString(i)

OptionLists == { [i \in 1..n |-> OptionLabel(i)] : n \in 0..MaxOptions }

Defaults == { {} } \cup { {d} : d \in 0..MaxOptions }

(* ---------------------------- state machine ---------------------------- *)

Init ==
    /\ op \in Ops
    /\ question = "What is your gender"
    /\ options \in (IF op = "read_choice" THEN OptionLists ELSE { <<>> })
    /\ default \in (IF op = "read_choice" THEN Defaults ELSE { {} })
    /\ overflow_checks \in BOOLEAN
    /\ input \in Streams
    /\ stdin = input
    /\ consumed = <<>>
    /\ buffered = <<>>
    /\ written = <<>>
    /\ pc = (IF op = "read_choice" THEN "assert" ELSE LoopStart(op))
    /\ result = Pending
    /\ diag = <<>>
    /\ io_fault = "none"

\* assert!(default in range)
CheckDefault ==
    /\ pc = "assert"
    /\ IF DefaultInRange(default, options)
       THEN pc' = "print" /\ UNCHANGED result
       ELSE pc' = "panicked" /\ result' = Panic(AssertMsg)
    /\ UNCHANGED <<op, question, options, default, overflow_checks, input,
                   stdin, consumed, buffered, written, diag, io_fault>>

\* print! of the prompt: the text holds no line terminator and is shorter
\* than the output buffer, so the line-buffered output only keeps it; nothing
\* is written, and nothing can fail, before the flush
PrintPrompt ==
    /\ pc = "print"
    /\ buffered' = buffered \o Prompt(op, question, options, default)
    /\ pc' = "flush"
    /\ UNCHANGED <<op, question, options, default, overflow_checks, input,
                   stdin, consumed, written, result, diag, io_fault>>

\* the read reached without the flush
Flush_Missing ==
    /\ pc = "flush"
    /\ pc' = "read"
    /\ UNCHANGED <<op, question, options, default, overflow_checks, input,
                   stdin, consumed, buffered, written, result, diag, io_fault>>

\* io::stdout().flush()?
Flush ==
    /\ pc = "flush"
    /\ \/ /\ written' = written \o buffered
          /\ buffered' = <<>>
          /\ pc' = "read"
          /\ UNCHANGED <<result, io_fault>>
       \/ /\ pc' = "failed"
          /\ result' = IoError
          /\ io_fault' = "flush"
          /\ UNCHANGED <<buffered, written>>
    /\ UNCHANGED <<op, question, options, default, overflow_checks, input,
                   stdin, consumed, diag>>

\* the line read through a reader of the call's own, whose read-ahead takes
\* the rest of the input with it
ReadLine_DropsBuffered ==
    /\ pc = "read"
    /\ Len(consumed) < MaxReads
    /\ LET buf == IF stdin = <<>> THEN <<>> ELSE Head(stdin)
           s == Step(op, buf, options, default, overflow_checks)
       IN  /\ stdin' = <<>>
           /\ consumed' = Append(consumed, buf)
           /\ pc' = s.pc
           /\ result' = s.result
           /\ diag' = s.diag
    /\ UNCHANGED <<op, question, options, default, overflow_checks, input,
                   buffered, written, io_fault>>

\* io::stdin().read_line(&mut buf)? and the rest of the loop body up to the
\* return or the diagnostic
ReadLine ==
    /\ pc = "read"
    /\ Len(consumed) < MaxReads
    /\ \/ LET buf == IF stdin = <<>> THEN <<>> ELSE Head(stdin)
              s == Step(op, buf, options, default, overflow_checks)
          IN  /\ stdin' = (IF stdin = <<>> THEN <<>> ELSE Tail(stdin))
              /\ consumed' = Append(consumed, buf)
              /\ pc' = s.pc
              /\ result' = s.result
              /\ diag' = s.diag
              /\ UNCHANGED io_fault
       \/ /\ pc' = "failed"
          /\ result' = IoError
          /\ io_fault' = "read"
          /\ UNCHANGED <<stdin, consumed, diag>>
    /\ UNCHANGED <<op, question, options, default, overflow_checks, input,
                   buffered, written>>

\* println! of the diagnostic: the line terminator makes the line-buffered
\* output write the buffer out; a failed write panics
PrintDiagnostic ==
    /\ pc = "diag"
    /\ \/ /\ written' = written \o buffered \o << diag >>
          /\ buffered' = <<>>
          /\ diag' = <<>>
          /\ pc' = LoopStart(op)
          /\ UNCHANGED <<result, io_fault>>
       \/ /\ pc' = "panicked"
          /\ result' = Panic(PrintMsg)
          /\ io_fault' = "write"
          /\ UNCHANGED <<buffered, written, diag>>
    /\ UNCHANGED <<op, question, options, default, overflow_checks, input,
                   stdin, consumed>>

Next == CheckDefault \/ PrintPrompt \/ Flush \/ ReadLine \/ PrintDiagnostic

Spec == Init /\ [][Next]_vars

(* ------------------------- properties: helpers ------------------------- *)

Terminal == {"returned", "failed", "panicked"}

Last(s) == s[Len(s)]

\* the line the i-th read of the call sees: past the end of the stream, the
\* empty line of end-of-stream
LineAt(i) == IF i <= Len(input) THEN input[i] ELSE <<>>

\* the input after its first k lines
Rest(k) == SubSeq(input, k + 1, Len(input))

\* the lines read so far are the first lines of the input, in order
ConsumedInOrder ==
    /\ \A i \in 1..Len(consumed) : consumed[i] = LineAt(i)
    /\ stdin = Rest(Len(consumed))

\* an output item that is a diagnostic line
IsDiag(item) == item # <<>> /\ Last(item) = "\n"

IsChoiceDiag(item) ==
    /\ Len(item) >= 2
    /\ item[Len(item) - 1] \in {" is not a valid option",
                                 " is not a valid option (too big)"}
    /\ Last(item) = "\n"

DiagCount(w) == Cardinality({ i \in 1..Len(w) : IsDiag(w[i]) })

TheDefault == CHOOSE d \in default : TRUE

\* the trimmed line spells a number n with 1 <= n <= number of options
ValidChoiceLine(l) ==
    LET p == ParseUsize(Trim(l))
    IN  p.ok /\ 1 <= p.val /\ p.val <= Len(options)

ChoiceNumberOf(l) == ParseUsize(Trim(l)).val

(* ------------------------------- claims -------------------------------- *)

\* C1: whatever the options, the in-range or absent default and the input
\* lines, an index read_choice returns is below the number of options.
C1_IndexBelowLen ==
    (op = "read_choice" /\ pc = "returned")
        => (result.tag = "Index" /\ 0 <= result.num /\ result.num < Len(options))

\* C1 witness: read_choice returned the last option after rejecting a line.
C1_Witness ==
    /\ op = "read_choice" /\ pc = "returned"
    /\ Len(options) = MaxOptions /\ result.num = Len(options) - 1
    /\ Len(consumed) >= 2

\* C2 (the claim as stated): without a default and without an I/O failure,
\* read_choice on an input holding a line that spells a number n in
\* 1..number of options ends by returning n-1 for the first such line, having
\* read exactly the lines up to it and printed one diagnostic per earlier line.
C2_ReturnsFirstValid ==
    (/\ op = "read_choice" /\ default = {} /\ io_fault = "none"
     /\ \E i \in 1..Len(input) : ValidChoiceLine(input[i])
     /\ pc \in Terminal)
        => LET k == CHOOSE i \in 1..Len(input) :
                        /\ ValidChoiceLine(input[i])
                        /\ \A j \in 1..(i - 1) : ~ValidChoiceLine(input[j])
           IN  /\ pc = "returned"
               /\ result = OkIndex(ChoiceNumberOf(input[k]) - 1)
               /\ Len(consumed) = k
               /\ DiagCount(written) = k - 1

\* C3: read_choice with a default, reading a line that is empty after
\* trimming, returns the default at once: that line is the last one consumed,
\* the rest of the input is untouched, and no diagnostic is printed for it.
C3_EmptyLineGivesDefault ==
    (/\ op = "read_choice" /\ default # {}
     /\ consumed # <<>> /\ Trim(Last(consumed)) = <<>>)
        => /\ pc = "returned"
           /\ result = OkIndex(TheDefault)
           /\ ConsumedInOrder
           /\ diag = <<>> /\ buffered = <<>>
           /\ DiagCount(written) = Len(consumed) - 1

\* C3 witness: the default was returned for a blank (not merely ended) line
\* while input remains unread.
C3_Witness ==
    /\ op = "read_choice" /\ default = {1} /\ pc = "returned"
    /\ result.num = 1
    /\ Last(consumed) = <<" ", "\n">>
    /\ Len(consumed) = 1 /\ stdin # <<>>

\* C4: read_choice called with a default >= the number of options aborts on
\* its assertion with nothing written and nothing read; it never gets past
\* the assertion.
C4_BadDefaultAborts ==
    (op = "read_choice" /\ \E d \in default : d >= Len(options))
        => /\ pc \in {"assert", "panicked"}
           /\ pc = "panicked" => result = Panic(AssertMsg)
           /\ written = <<>> /\ buffered = <<>>
           /\ consumed = <<>> /\ stdin = input
           /\ io_fault = "none"

\* C4 witness: the assertion failed with input waiting.
C4_Witness ==
    /\ op = "read_choice" /\ pc = "panicked" /\ result = Panic(AssertMsg)
    /\ default = {MaxOptions} /\ Len(options) = MaxOptions
    /\ input # <<>>

\* C5 (the claim as stated): a line that parses as the number 0 is rejected
\* by read_choice with a "not a valid option" diagnostic and a retry; the call
\* neither returns for that line nor aborts.
C5_ZeroIsRejected ==
    (/\ op = "read_choice" /\ consumed # <<>>
     /\ ParseUsize(Trim(Last(consumed))).ok
     /\ ParseUsize(Trim(Last(consumed))).val = 0)
        => \/ io_fault # "none"
           \/ pc = "diag" /\ IsChoiceDiag(diag)
           \/ /\ pc \in {"print", "flush", "read"}
              /\ DiagCount(written) = Len(consumed)
              /\ IsChoiceDiag(Last(written)) \/ pc # "print"

\* C6: read_string_nonempty returns a non-empty string: the trimmed text of
\* the first input line that is not blank, after one "Input must not be
\* empty." line for each blank line before it and no other diagnostic.
C6_NonEmptyFirstNonBlank ==
    (op = "read_string_nonempty" /\ pc = "returned")
        => LET k == Len(consumed)
           IN  /\ result.tag = "String"
               /\ result.text # <<>>
               /\ result.text = Trim(LineAt(k))
               /\ \A c \in 1..Len(result.text) :
                      (c = 1 \/ c = Len(result.text)) => result.text[c] \notin WhiteSpace
               /\ \A i \in 1..(k - 1) : \A c \in 1..Len(LineAt(i)) : LineAt(i)[c] \in WhiteSpace
               /\ ConsumedInOrder
               /\ Cardinality({ i \in 1..Len(written) : written[i] = EmptyDiag }) = k - 1
               /\ DiagCount(written) = k - 1

\* C6 witness: a string was returned, shorter than its line, after two blank
\* lines.
C6_Witness ==
    /\ op = "read_string_nonempty" /\ pc = "returned"
    /\ Len(consumed) = 3
    /\ result.text = <<"2">> /\ Last(consumed) = <<" ", "2", " ", "\n">>

\* C7: read_custom and read_custom_noquestion return None on the first blank
\* line, with no diagnostic for it; a non-blank line that parses returns Some
\* of its value; only a non-blank line that does not parse is answered with a
\* diagnostic and a retry, so every earlier line read was such a line.
C7_CustomEmptyIsNone ==
    (op \in {"read_custom", "read_custom_noquestion"} /\ consumed # <<>>)
        => LET k == Len(consumed)
               l == Trim(Last(consumed))
               p == ParseCustom(l)
           IN  /\ l = <<>> =>
                     /\ pc = "returned" /\ result = OkNone
                     /\ diag = <<>> /\ DiagCount(written) = k - 1
               /\ (l # <<>> /\ p.ok) =>
                     /\ pc = "returned" /\ result = OkSomeValue(p.val)
                     /\ l \in Seq(Digits \cup {"+"})
                     /\ diag = <<>> /\ DiagCount(written) = k - 1
               /\ (l # <<>> /\ ~p.ok) =>
                     \/ io_fault # "none"
                     \/ pc = "diag" /\ diag = NotValidDiag(l)
                                    /\ DiagCount(written) = k - 1
                     \/ pc \in {"print", "flush", "read"}
                           /\ DiagCount(written) = k
               /\ \A i \in 1..(k - 1) :
                     /\ Trim(consumed[i]) # <<>>
                     /\ ~ParseCustom(Trim(consumed[i])).ok
               /\ ConsumedInOrder

\* C7 witness: read_custom_noquestion returned None on a blank line after
\* retrying an unparsable one, leaving input unread.
C7_Witness ==
    /\ op = "read_custom_noquestion" /\ pc = "returned" /\ result = OkNone
    /\ consumed = << <<"a", "\n">>, <<" ", "\n">> >>
    /\ stdin # <<>>

\* the output read_custom_nonempty produces for the lines it read, the last
\* of which it accepted: the question before every read, and after each
\* rejected line its diagnostic
RECURSIVE C8_Transcript(_)
C8_Transcript(lines) ==
    IF lines = <<>> THEN <<>>
    ELSE << <<question, ": ">> >>
         \o (IF Len(lines) = 1 THEN <<>>
             ELSE IF Trim(Head(lines)) = <<>>
                  THEN << <<"Input must not be empty.", "\n">> >>
                  ELSE << Trim(Head(lines)) \o <<" is not valid", "\n">> >>)
         \o C8_Transcript(Tail(lines))

\* C8: read_custom_nonempty returns the parsed value of the first input line
\* that is neither blank nor refused by the parser; every earlier blank line
\* got the empty-input diagnostic, every earlier unparsable line one "is not
\* valid" diagnostic, and the same question precedes every read.
C8_CustomNonEmptyFirstParsable ==
    (op = "read_custom_nonempty" /\ pc = "returned")
        => LET k == Len(consumed)
               p == ParseCustom(Trim(LineAt(k)))
           IN  /\ k >= 1
               /\ Trim(LineAt(k)) # <<>> /\ p.ok
               /\ result = OkValue(p.val)
               /\ \A i \in 1..(k - 1) :
                      Trim(LineAt(i)) = <<>> \/ ~ParseCustom(Trim(LineAt(i))).ok
               /\ ConsumedInOrder
               /\ written = C8_Transcript(consumed)
               /\ buffered = <<>>

\* C8 witness: 42 was returned after a blank line and an unparsable one.
C8_Witness ==
    /\ op = "read_custom_nonempty" /\ pc = "returned"
    /\ result = OkValue(42)
    /\ consumed = << <<"\n">>, <<"a", "\n">>, <<"4", "2", "\n">> >>

\* C9 (the claim as stated): the first failure of a read, a write or a flush
\* ends the call with that I/O error as its result.
C9_IoFailureIsReturned ==
    io_fault # "none" => (pc = "failed" /\ result = IoError)

\* C10 (the claim as stated): a retrying operation, called with a valid
\* default or none, ends only by returning a valid value or by an I/O
\* failure, never by an abort that the content of a line causes.
C10_OnlySuccessOrIoFailure ==
    (/\ op \in {"read_string_nonempty", "read_choice", "read_custom",
                "read_custom_nonempty", "read_custom_noquestion"}
     /\ \A d \in default : d < Len(options)
     /\ pc \in Terminal)
        => \/ io_fault # "none"
           \/ /\ pc = "returned"
              /\ CASE op = "read_string_nonempty" ->
                        result.tag = "String" /\ result.text # <<>>
                   [] op = "read_choice" ->
                        result.tag = "Index" /\ result.num < Len(options)
                   [] op = "read_custom_nonempty" -> result.tag = "Value"
                   [] OTHER -> result.tag \in {"None", "SomeValue"}

\* C11: a read never starts while output is still in the buffer: whenever an
\* operation is about to read, in its first iteration or a later one, every
\* prompt and diagnostic printed so far has been written out.
C11_FlushedBeforeRead ==
    pc = "read" => buffered = <<>>

\* C11 witness: a retrying operation is about to read again, its second
\* prompt written out after the diagnostic.
C11_Witness ==
    /\ op = "read_custom" /\ pc = "read"
    /\ Len(consumed) = 1
    /\ written = << <<question, ": ">>, <<"a", " is not valid", "\n">>,
                    <<question, ": ">> >>

\* C12: read_string and read_string_noquestion return None exactly when the
\* one line they read holds nothing but whitespace, and otherwise Some of the
\* line without its leading and trailing whitespace: a non-empty string that
\* neither starts nor ends with whitespace; a last line without a terminator
\* is read like any other.
C12_ReadStringIsTrim ==
    (op \in {"read_string", "read_string_noquestion"} /\ pc = "returned")
        => LET s == LineAt(1)
               blank == \A c \in 1..Len(s) : s[c] \in WhiteSpace
           IN  /\ consumed = << s >>
               /\ result.tag \in {"None", "Some"}
               /\ result.tag = "None" <=> blank
               /\ result.tag = "Some" =>
                     /\ result.text # <<>>
                     /\ result.text[1] \notin WhiteSpace
                     /\ result.text[Len(result.text)] \notin WhiteSpace
                     /\ \E i \in 1..Len(s) : \E j \in i..Len(s) :
                           /\ result.text = SubSeq(s, i, j)
                           /\ \A c \in 1..Len(s) :
                                 (c < i \/ c > j) => s[c] \in WhiteSpace

\* C12 witness: the last line of the input, ended by the end of the stream,
\* was read and returned trimmed.
C12_Witness ==
    /\ op = "read_string_noquestion" /\ pc = "returned"
    /\ input = << <<" ", "3">> >>
    /\ result = OkSome(<<"3">>)

\* a line that ends the operation's retry loop with a value
C13_ValidLine(l) ==
    CASE op = "read_string_nonempty" -> Trim(l) # <<>>
      [] op = "read_choice" ->
            ValidChoiceLine(l) \/ (default # {} /\ Trim(l) = <<>>)
      [] op = "read_custom_nonempty" ->
            Trim(l) # <<>> /\ ParseCustom(Trim(l)).ok
      [] OTHER -> FALSE

\* C13 (the claim as stated): when the input holds a line valid for the
\* operation and no I/O failure occurs, read_string_nonempty, read_choice and
\* read_custom_nonempty end by returning, having read exactly the lines up to
\* the first valid one and retried once for each line before it.
C13_EndsAtFirstValidLine ==
    (/\ op \in {"read_string_nonempty", "read_choice", "read_custom_nonempty"}
     /\ \A d \in default : d < Len(options)
     /\ io_fault = "none"
     /\ \E i \in 1..Len(input) : C13_ValidLine(input[i])
     /\ pc \in Terminal)
        => LET k == CHOOSE i \in 1..Len(input) :
                        /\ C13_ValidLine(input[i])
                        /\ \A j \in 1..(i - 1) : ~C13_ValidLine(input[j])
           IN  /\ pc = "returned"
               /\ Len(consumed) = k
               /\ DiagCount(written) = k - 1

\* C14: on an input that is at its end from the start, read_string_nonempty
\* and read_custom_nonempty never return: short of an I/O failure the call
\* is always inside its loop, every read has seen the empty line, and each
\* finished iteration has printed the one empty-input diagnostic.
C14_EndedInputNeverReturns ==
    (op \in {"read_string_nonempty", "read_custom_nonempty"} /\ input = <<>>)
        => /\ pc # "returned"
           /\ \A i \in 1..Len(consumed) : consumed[i] = <<>>
           /\ io_fault = "none" =>
                 /\ pc \in {"print", "flush", "read", "diag"}
                 /\ pc = "diag" => diag = <<"Input must not be empty.", "\n">>
                 /\ \A i \in 1..Len(written) :
                       written[i] \in { <<question, ": ">>,
                                        <<"Input must not be empty.", "\n">> }
                 /\ DiagCount(written)
                       = Len(consumed) - (IF pc = "diag" THEN 1 ELSE 0)

\* C14 witness: read_custom_nonempty has read the end of the stream three
\* times, printed the diagnostic three times and starts a fourth iteration.
C14_Witness ==
    /\ op = "read_custom_nonempty" /\ input = <<>>
    /\ pc = "print"
    /\ Len(consumed) = 3 /\ DiagCount(written) = 3

\* C15: the lines an operation has read are the first lines of the input, one
\* per read and in order, and the lines after them are still waiting,
\* untouched and in order; a returned call has read at least one line, and
\* read_string and read_string_noquestion exactly one.
C15_ConsumesExactlyLinesRead ==
    /\ \A i \in 1..Len(consumed) : consumed[i] = LineAt(i)
    /\ stdin = SubSeq(input, Len(consumed) + 1, Len(input))
    /\ pc = "returned" => Len(consumed) >= 1
    /\ (pc = "returned" /\ op \in {"read_string", "read_string_noquestion"})
          => Len(consumed) = 1

\* C15 witness: read_string returned from the first of three lines and the
\* other two are waiting for the next call.
C15_Witness ==
    /\ op = "read_string" /\ pc = "returned"
    /\ Len(input) = 3 /\ result = OkSome(<<"a">>)
    /\ stdin = << input[2], input[3] >>
    /\ input[2] # input[3]

\* the pieces of one output item put together
RECURSIVE C16_Join(_)
C16_Join(pieces) ==
    IF pieces = <<>> THEN "" ELSE Head(pieces) \o C16_Join(Tail(pieces))

\* the text a sequence of output items amounts to
RECURSIVE C16_Text(_)
C16_Text(items) ==
    IF items = <<>> THEN "" ELSE C16_Join(Head(items)) \o C16_Text(Tail(items))

\* the options from the i-th on, numbered from 1 and separated by commas
RECURSIVE C16_OptionList(_)
C16_OptionList(i) ==
    IF i > Len(options) THEN ""
    ELSE (IF i > 1 THEN ", " ELSE "")
         \o ToString(i) \o ": \"" \o options[i] \o "\""
         \o C16_OptionList(i + 1)

\* the full prompt of read_choice
C16_PromptText ==
    question \o " [" \o C16_OptionList(1)
    \o (IF default # {} THEN " (default: " \o ToString(TheDefault + 1) \o ")"
        ELSE "")
    \o "]: "

\* the diagnostic line for a rejected line
C16_DiagText(l) ==
    LET p == ParseUsize(Trim(l))
    IN  IF p.ok
        THEN ToString(IF p.val = 0 THEN UsizeMax ELSE p.val - 1)
             \o " is not a valid option (too big)\n"
        ELSE C16_Join(Trim(l)) \o " is not a valid option\n"

\* prompts i..np, each of the first nd followed by the diagnostic of the
\* line read after it
RECURSIVE C16_Expected(_, _, _)
C16_Expected(i, np, nd) ==
    IF i > np THEN ""
    ELSE C16_PromptText
         \o (IF i <= nd THEN C16_DiagText(consumed[i]) ELSE "")
         \o C16_Expected(i + 1, np, nd)

\* C16: in read_choice (past its assertion, no I/O failure) the output is,
\* for each line read, the full prompt (question, the options numbered from 1
\* in order, the default as default+1) and then, if the line was rejected,
\* its diagnostic before the next prompt; the prompt is written out before
\* the read, so as many prompts have been written as lines have been read,
\* plus the one a pending read waits behind.
C16_PromptBeforeEveryRead ==
    (/\ op = "read_choice" /\ io_fault = "none"
     /\ pc # "assert" /\ \A d \in default : d < Len(options))
        => LET k == Len(consumed)
               np == IF pc \in {"flush", "read"} THEN k + 1 ELSE k
               nd == IF pc \in {"print", "flush", "read"} THEN k ELSE k - 1
           IN  /\ C16_Text(written \o buffered) = C16_Expected(1, np, nd)
               /\ pc # "flush" => buffered = <<>>
               /\ Cardinality({ i \in 1..Len(written) : written[i] = <<"]: ">> })
                     = k + (IF pc = "read" THEN 1 ELSE 0)

\* C16 witness: two lines were rejected and the third prompt, default shown
\* as 1, is written out before the third read.
C16_Witness ==
    /\ op = "read_choice" /\ pc = "read"
    /\ default = {0} /\ Len(options) = 3
    /\ consumed = << <<"a", "\n">>, <<"4", "2", "\n">> >>
    /\ C16_Text(written) =
          "What is your gender [1: \"male\", 2: \"female\", 3: \"other\" (default: 1)]: "
          \o "a is not a valid option\n"
          \o "What is your gender [1: \"male\", 2: \"female\", 3: \"other\" (default: 1)]: "
          \o "41 is not a valid option (too big)\n"
          \o "What is your gender [1: \"male\", 2: \"female\", 3: \"other\" (default: 1)]: "

\* C17: read_string_noquestion and read_custom_noquestion print no question:
\* nothing is ever left in the output buffer, read_string_noquestion writes
\* nothing at all, and what read_custom_noquestion has written is exactly the
\* "is not valid" line of each line it rejected, in order.
C17_NoQuestionWritten ==
    (op \in {"read_string_noquestion", "read_custom_noquestion"})
        => /\ buffered = <<>>
           /\ op = "read_string_noquestion" => written = <<>>
           /\ \A i \in 1..Len(written) :
                 /\ i <= Len(consumed)
                 /\ written[i] = Trim(consumed[i]) \o <<" is not valid", "\n">>
           /\ io_fault = "none" =>
                 Len(written) = Len(consumed)
                     - (IF pc \in {"diag", "returned"} THEN 1 ELSE 0)

\* C17 witness: read_custom_noquestion rejected two lines and is about to
\* read a third; its output is the two diagnostics.
C17_Witness ==
    /\ op = "read_custom_noquestion" /\ pc = "read"
    /\ Len(consumed) = 2
    /\ written = << <<"a", " is not valid", "\n">>, <<"a", " is not valid", "\n">> >>

\* C18: read_choice without a default never accepts a line that is empty
\* after trimming: short of an I/O failure it answers " is not a valid option"
\* and retries; so on an input at its end it never returns, while with a
\* (valid) default the first read of such an input returns the default.
C18_EmptyLineWithoutDefault ==
    /\ (/\ op = "read_choice" /\ default = {}
        /\ consumed # <<>> /\ Trim(Last(consumed)) = <<>>)
          => /\ pc # "returned"
             /\ io_fault = "none" =>
                   \/ pc = "diag" /\ diag = <<" is not a valid option", "\n">>
                   \/ /\ pc \in {"print", "flush", "read"}
                      /\ \E i \in 1..Len(written) :
                            /\ written[i] = <<" is not a valid option", "\n">>
                            /\ \A j \in (i + 1)..Len(written) : ~IsDiag(written[j])
    /\ (op = "read_choice" /\ default = {} /\ input = <<>>) => pc # "returned"
    /\ (/\ op = "read_choice" /\ default # {} /\ input = <<>>
        /\ consumed # <<>>)
          => /\ pc = "returned" /\ result = OkIndex(TheDefault)
             /\ Len(consumed) = 1

\* C18 witness: without a default, a blank line and then the end of the
\* stream were both rejected and a third read is pending.
C18_Witness ==
    /\ op = "read_choice" /\ default = {} /\ pc = "read"
    /\ input = << <<" ", "\n">> >>
    /\ Len(consumed) = 2
    /\ DiagCount(written) = 2

\* C19 (the claim as stated): read_choice with no options and no default
\* accepts no line: it never returns, and it ends only by an I/O failure.
C19_NoOptionsOnlyIoExit ==
    (op = "read_choice" /\ options = <<>> /\ default = {})
        => /\ pc # "returned"
           /\ pc \in Terminal => io_fault # "none"

====
